---- MODULE Spec2Model ----
(***************************************************************************)
(* Hive Ecuador check-in bot: the persistence store (DatabaseManager), the *)
(* validation engine (validate_post), the three actions and the poll loop  *)
(* (monitor_community, process_post, run) of main.py, and the variant of   *)
(* process_post in main_advanced.py.                                       *)
(*                                                                         *)
(* Units.  Amounts of HBD are whole numbers (the REAL columns hold sums of *)
(* the configured transfer amount).  The wall clock `now' counts ticks of  *)
(* 12 hours; DayTicks ticks make one calendar date and also the 24 hour    *)
(* freshness window.  len(body) stands for the body text.                  *)
(***************************************************************************)
EXTENDS Integers, Sequences, FiniteSets, TLC

\* ------------------------------------------------------------------ bounds
MaxNow == 2
MaxFailures == 1
MaxCap == 1
MaxFeed == 2
MaxCalls == 2
MaxDelta == 1

\* ------------------------------------------------------- program constants
DayTicks == 2
TransferAmount == 1
MinAccountBalance == 5
MinBodyLen == 100

None == "<None>"

\* ------------------------------------------------------------------- state
VARIABLES
    config,            \* self.config: dry_run, client, max_daily_transfers
    now,               \* datetime.now(), in ticks
    processed_posts,   \* table processed_posts: a set of rows
    seq_id,            \* AUTOINCREMENT counter of processed_posts.id
    daily_stats,       \* table daily_stats: date -> row
    daily_transfers,   \* table daily_transfers: date -> row
    pc,                \* where run() stands
    posts,             \* the list monitor_community returned, not yet iterated
    post,              \* the post process_post was called with
    run,               \* the locals of the running process_post
    failures,          \* failures met so far in a try body (a handler's own are not counted)
    executor,          \* history: per post, the process_post runs whose comment reached the chain
    deduped,           \* history: the entries the dedupe filter has just dropped
    deltas,            \* history: per date, the sum of update_daily_stats' arguments
    ncalls,            \* store calls made by a direct caller of DatabaseManager
    ret                \* what the last direct DatabaseManager call was and returned

vars == <<config, now, processed_posts, seq_id, daily_stats, daily_transfers, pc,
          posts, post, run, failures, executor, deduped, deltas, ncalls, ret>>

store == <<processed_posts, seq_id, daily_stats, daily_transfers, deltas>>

\* --------------------------------------------------------------- the posts
\* config['required_metadata'], as the module docstring gives it.
RequiredMetadata ==
    [app |-> "checkinecuador/1.0.0",
     developer |-> "menobass",
     tags |-> <<"introduceyourself", "checkin">>,
     beneficiaries |-> <<[account |-> "hiveecuador", weight |-> 8000]>>,
     country |-> "Ecuador",
     required_fields |-> <<"onboarder", "image">>]

GoodMetadata ==
    [has |-> {"app", "developer", "tags", "beneficiaries", "country", "onboarder", "image"},
     app |-> "checkinecuador/1.0.0",
     developer |-> "menobass",
     tags |-> <<"introduceyourself", "checkin">>,
     beneficiaries |-> <<[account |-> "hiveecuador", weight |-> 8000]>>,
     country |-> "Ecuador",
     onboarder |-> "some_user",
     image |-> "selfie.jpg"]

\* The entries the feed can return, by id.
PostIds == {"p1", "p2", "p3"}

PostOf(id) ==
    CASE id = "p1" ->
           [author |-> "alice", permlink |-> "hola", created |-> 0, body_len |-> 620,
            json_metadata |-> [kind |-> "dict", val |-> GoodMetadata],
            beneficiaries |-> <<>>, extensions |-> <<>>]
      [] id = "p2" ->
           [author |-> "bob", permlink |-> "hola", created |-> 1, body_len |-> 100,
            json_metadata |-> [kind |-> "str", val |-> GoodMetadata],
            beneficiaries |-> <<>>, extensions |-> <<>>]
      [] OTHER ->
           [author |-> "alice", permlink |-> "corto", created |-> -1, body_len |-> 5,
            json_metadata |-> [kind |-> "dict", val |-> GoodMetadata],
            beneficiaries |-> <<>>, extensions |-> <<>>]

\* The (author, permlink) keys of the entries.
Keys == {<<PostOf(i).author, PostOf(i).permlink>> : i \in PostIds}

\* ---------------------------------------------------------- DatabaseManager
Today(t) == t \div DayTicks

MatchingRows(tbl, author, permlink) ==
    {r \in tbl : r.author = author /\ r.permlink = permlink}

\* Fault variant: the lookup is by author alone.
is_post_processed_byauthor(tbl, author, permlink) ==
    Cardinality({r \in tbl : r.author = author}) > 0

is_post_processed(tbl, author, permlink) ==
    Cardinality(MatchingRows(tbl, author, permlink)) > 0

\* Fault variant: the cap is compared with the count of any date in the table.
can_send_transfer_today_anydate(transfers, today, max_daily_transfers) ==
    \A d \in DOMAIN transfers \cup {today} :
        (IF d \in DOMAIN transfers THEN transfers[d].transfer_count ELSE 0)
            < max_daily_transfers

\* Fault variant: the cap compared with <= instead of <.
can_send_transfer_today_le(transfers, today, max_daily_transfers) ==
    LET current_count == IF today \in DOMAIN transfers
                         THEN transfers[today].transfer_count ELSE 0
    IN  current_count <= max_daily_transfers

can_send_transfer_today(transfers, today, max_daily_transfers) ==
    LET current_count == IF today \in DOMAIN transfers
                         THEN transfers[today].transfer_count ELSE 0
    IN  current_count < max_daily_transfers

\* Fault variant: a plain INSERT, with no UNIQUE constraint to replace under.
record_processed_post_insert(tbl, id, author, permlink, hbd_sent, upvoted, commented) ==
    tbl \cup {[id |-> id, author |-> author, permlink |-> permlink,
               hbd_sent |-> hbd_sent, upvoted |-> upvoted, commented |-> commented]}

\* INSERT OR REPLACE under UNIQUE(author, permlink): the rows in conflict are
\* deleted, then the new row is inserted with the next AUTOINCREMENT id.
record_processed_post(tbl, id, author, permlink, hbd_sent, upvoted, commented) ==
    (tbl \ MatchingRows(tbl, author, permlink)) \cup
        {[id |-> id, author |-> author, permlink |-> permlink,
          hbd_sent |-> hbd_sent, upvoted |-> upvoted, commented |-> commented]}

Coalesce(tbl, date, column) == IF date \in DOMAIN tbl THEN tbl[date][column] ELSE 0

Upsert(tbl, date, row) ==
    [d \in DOMAIN tbl \cup {date} |-> IF d = date THEN row ELSE tbl[d]]

\* Fault variant: the row is overwritten with the call's own deltas.
update_daily_stats_row_overwrite(stats, today, posts_processed, hbd_sent, upvotes_given, errors) ==
    Upsert(stats, today,
           [posts_processed |-> posts_processed, hbd_sent |-> hbd_sent,
            upvotes_given |-> upvotes_given, errors |-> errors])

\* Fault variant: an error counts as a processed post as well.
update_daily_stats_row_errorisapost(stats, today, posts_processed, hbd_sent, upvotes_given, errors) ==
    Upsert(stats, today,
           [posts_processed |-> Coalesce(stats, today, "posts_processed") + posts_processed
                                  + errors,
            hbd_sent |-> Coalesce(stats, today, "hbd_sent") + hbd_sent,
            upvotes_given |-> Coalesce(stats, today, "upvotes_given") + upvotes_given,
            errors |-> Coalesce(stats, today, "errors") + errors])

update_daily_stats_row(stats, today, posts_processed, hbd_sent, upvotes_given, errors) ==
    Upsert(stats, today,
           [posts_processed |-> Coalesce(stats, today, "posts_processed") + posts_processed,
            hbd_sent |-> Coalesce(stats, today, "hbd_sent") + hbd_sent,
            upvotes_given |-> Coalesce(stats, today, "upvotes_given") + upvotes_given,
            errors |-> Coalesce(stats, today, "errors") + errors])

\* Fault variant: every call counts as a transfer.
update_daily_transfers_row_always(transfers, today, hbd_sent) ==
    Upsert(transfers, today,
           [transfer_count |-> Coalesce(transfers, today, "transfer_count") + 1,
            total_amount |-> Coalesce(transfers, today, "total_amount") + hbd_sent])

\* Fault variant: total_amount is set to the amount of the call, not added to.
update_daily_transfers_row_lastamount(transfers, today, hbd_sent) ==
    Upsert(transfers, today,
           [transfer_count |-> Coalesce(transfers, today, "transfer_count")
                                + (IF hbd_sent > 0 THEN 1 ELSE 0),
            total_amount |-> hbd_sent])

update_daily_transfers_row(transfers, today, hbd_sent) ==
    Upsert(transfers, today,
           [transfer_count |-> Coalesce(transfers, today, "transfer_count")
                                + (IF hbd_sent > 0 THEN 1 ELSE 0),
            total_amount |-> Coalesce(transfers, today, "total_amount") + hbd_sent])

get_daily_stats(stats, date) ==
    IF date \in DOMAIN stats
    THEN [date |-> date, posts_processed |-> stats[date].posts_processed,
          hbd_sent |-> stats[date].hbd_sent, upvotes_given |-> stats[date].upvotes_given,
          errors |-> stats[date].errors]
    ELSE [date |-> -1, posts_processed |-> 0, hbd_sent |-> 0, upvotes_given |-> 0,
          errors |-> 0]

\* update_daily_stats as a step: both statements commit together.
UpdateDailyStats(posts_processed, hbd_sent, upvotes_given, errors) ==
    /\ daily_stats' = update_daily_stats_row(daily_stats, Today(now), posts_processed,
                                             hbd_sent, upvotes_given, errors)
    /\ daily_transfers' = update_daily_transfers_row(daily_transfers, Today(now), hbd_sent)
    /\ deltas' = Upsert(deltas, Today(now),
                        [posts_processed |-> Coalesce(deltas, Today(now), "posts_processed")
                                              + posts_processed,
                         hbd_sent |-> Coalesce(deltas, Today(now), "hbd_sent") + hbd_sent,
                         upvotes_given |-> Coalesce(deltas, Today(now), "upvotes_given")
                                            + upvotes_given,
                         errors |-> Coalesce(deltas, Today(now), "errors") + errors])

RecordProcessedPost(author, permlink, hbd_sent, upvoted, commented) ==
    /\ processed_posts' = record_processed_post(processed_posts, seq_id + 1, author,
                                                permlink, hbd_sent, upvoted, commented)
    /\ seq_id' = seq_id + 1

\* ------------------------------------------------------------ validate_post
Range(s) == {s[i] : i \in 1..Len(s)}

Truthy(v) == v # None /\ v # ""

\* dict.get(key) on the parsed metadata.
MetaGet(m, f) == IF f \in m.has THEN m[f] ELSE None

MetaList(m, f) == IF f \in m.has THEN m[f] ELSE <<>>

Reason(check, detail) == [check |-> check, detail |-> detail]

\* An extension entry [0, {"beneficiaries": [...]}] carries beneficiaries.
\* Fault variant: the tag of the extension entry is not looked at.
ExtensionBeneficiaries_anytag(ext) ==
    IF ext.is_list /\ ext.len >= 2 /\ ext.has_beneficiaries
    THEN ext.beneficiaries ELSE <<>>

ExtensionBeneficiaries(ext) ==
    IF ext.is_list /\ ext.len >= 2 /\ ext.tag = 0 /\ ext.has_beneficiaries
    THEN ext.beneficiaries ELSE <<>>

RECURSIVE FlattenExtensions(_)
FlattenExtensions(exts) ==
    IF exts = <<>> THEN <<>>
    ELSE ExtensionBeneficiaries(Head(exts)) \o FlattenExtensions(Tail(exts))

\* The list the beneficiary check searches: metadata, direct field, extensions.
MergedBeneficiaries(p, json_metadata) ==
    MetaList(json_metadata, "beneficiaries") \o p.beneficiaries
        \o FlattenExtensions(p.extensions)

\* Fault variant: a beneficiary is matched on the account alone.
BeneficiaryFound_accountonly(req_ben, post_beneficiaries) ==
    \E i \in 1..Len(post_beneficiaries) :
        post_beneficiaries[i].account = req_ben.account

BeneficiaryFound(req_ben, post_beneficiaries) ==
    \E i \in 1..Len(post_beneficiaries) :
        /\ post_beneficiaries[i].account = req_ben.account
        /\ post_beneficiaries[i].weight = req_ben.weight

AppReasons(req, m) ==
    IF Truthy(req.app) /\ MetaGet(m, "app") # req.app
    THEN <<Reason("App mismatch", <<req.app, MetaGet(m, "app")>>)>> ELSE <<>>

DeveloperReasons(req, m) ==
    IF Truthy(req.developer) /\ MetaGet(m, "developer") # req.developer
    THEN <<Reason("Developer mismatch", <<req.developer, MetaGet(m, "developer")>>)>>
    ELSE <<>>

TagReasons(req, m) ==
    LET post_tags == MetaList(m, "tags")
        Missing(tag) == tag \notin Range(post_tags)
        missing_tags == SelectSeq(req.tags, Missing)
    IN  IF missing_tags # <<>>
        THEN <<Reason("Missing required tags", missing_tags)>> ELSE <<>>

BeneficiaryReasons(req, post_beneficiaries) ==
    LET NotFound(req_ben) == ~BeneficiaryFound(req_ben, post_beneficiaries)
        missing == SelectSeq(req.beneficiaries, NotFound)
    IN  [i \in 1..Len(missing) |->
            Reason("Missing beneficiary",
                   <<missing[i].account, ToString(missing[i].weight)>>)]

CountryReasons(req, m) ==
    IF Truthy(req.country) /\ MetaGet(m, "country") # req.country
    THEN <<Reason("Country mismatch", <<req.country, MetaGet(m, "country")>>)>>
    ELSE <<>>

\* Fault variant: the missing fields are reported together, as the tags are.
FieldReasons_together(req, m) ==
    LET Absent(field) == field \notin m.has \/ ~Truthy(m[field])
        missing == SelectSeq(req.required_fields, Absent)
    IN  IF missing # <<>> THEN <<Reason("Missing required field", missing)>> ELSE <<>>

FieldReasons(req, m) ==
    LET Absent(field) == field \notin m.has \/ ~Truthy(m[field])
        missing == SelectSeq(req.required_fields, Absent)
    IN  [i \in 1..Len(missing) |-> Reason("Missing required field", <<missing[i]>>)]

\* Fault variant: a body of exactly the minimum length is too short.
BodyReasons_le(p) ==
    IF p.body_len <= MinBodyLen
    THEN <<Reason("Post body too short for introduction", <<>>)>> ELSE <<>>

BodyReasons(p) ==
    IF p.body_len < MinBodyLen
    THEN <<Reason("Post body too short for introduction", <<>>)>> ELSE <<>>

\* Fault variant: after a parse failure the body-length rule still runs.
validate_post_parsecontinue(p, req) ==
    IF p.json_metadata.kind = "badstr"
    THEN [is_valid |-> FALSE,
          reasons |-> <<Reason("Invalid JSON metadata", <<>>)>> \o BodyReasons(p)]
    ELSE LET m == p.json_metadata.val
             reasons == AppReasons(req, m) \o DeveloperReasons(req, m)
                          \o TagReasons(req, m)
                          \o BeneficiaryReasons(req, MergedBeneficiaries(p, m))
                          \o CountryReasons(req, m) \o FieldReasons(req, m)
                          \o BodyReasons(p)
         IN  [is_valid |-> Len(reasons) = 0, reasons |-> reasons]

\* Fault variant: the body-length rule is evaluated first.
validate_post_bodyfirst(p, req) ==
    IF p.json_metadata.kind = "badstr"
    THEN [is_valid |-> FALSE, reasons |-> <<Reason("Invalid JSON metadata", <<>>)>>]
    ELSE LET m == p.json_metadata.val
             reasons == BodyReasons(p) \o AppReasons(req, m) \o DeveloperReasons(req, m)
                          \o TagReasons(req, m)
                          \o BeneficiaryReasons(req, MergedBeneficiaries(p, m))
                          \o CountryReasons(req, m) \o FieldReasons(req, m)
         IN  [is_valid |-> Len(reasons) = 0, reasons |-> reasons]

\* Fault variant: validation stops at the first reason it finds.
validate_post_shortcircuit(p, req) ==
    IF p.json_metadata.kind = "badstr"
    THEN [is_valid |-> FALSE, reasons |-> <<Reason("Invalid JSON metadata", <<>>)>>]
    ELSE LET m == p.json_metadata.val
             reasons == AppReasons(req, m) \o DeveloperReasons(req, m)
                          \o TagReasons(req, m)
                          \o BeneficiaryReasons(req, MergedBeneficiaries(p, m))
                          \o CountryReasons(req, m) \o FieldReasons(req, m)
                          \o BodyReasons(p)
         IN  [is_valid |-> Len(reasons) = 0,
              reasons |-> IF reasons = <<>> THEN <<>> ELSE <<Head(reasons)>>]

validate_post(p, req) ==
    IF p.json_metadata.kind = "badstr"
    THEN [is_valid |-> FALSE, reasons |-> <<Reason("Invalid JSON metadata", <<>>)>>]
    ELSE LET m == p.json_metadata.val
             reasons == AppReasons(req, m) \o DeveloperReasons(req, m)
                          \o TagReasons(req, m)
                          \o BeneficiaryReasons(req, MergedBeneficiaries(p, m))
                          \o CountryReasons(req, m) \o FieldReasons(req, m)
                          \o BodyReasons(p)
         IN  [is_valid |-> Len(reasons) = 0, reasons |-> reasons]

\* main_advanced.py: the same checks, beneficiaries from the metadata alone.
validate_post_advanced(p, req) ==
    IF p.json_metadata.kind = "badstr"
    THEN [is_valid |-> FALSE, reasons |-> <<Reason("Invalid JSON metadata", <<>>)>>]
    ELSE LET m == p.json_metadata.val
             reasons == AppReasons(req, m) \o DeveloperReasons(req, m)
                          \o TagReasons(req, m)
                          \o BeneficiaryReasons(req, MetaList(m, "beneficiaries"))
                          \o CountryReasons(req, m) \o FieldReasons(req, m)
                          \o BodyReasons(p)
         IN  [is_valid |-> Len(reasons) = 0, reasons |-> reasons]

\* -------------------------------------------------------------- the actions
\* self.hive_client (lighthive) is set; the beem fallback, taken when lighthive
\* is not installed, has the same outcomes and is not told apart.
ChainClients == {"lighthive"}

Clients == ChainClients \cup {"none"}

\* send_welcome_comment: dry run, then the chain client's broadcast (`sent' is
\* whether it returned a result without raising), else a simulated comment.
send_welcome_comment(cfg, sent) ==
    IF cfg.dry_run THEN TRUE
    ELSE IF cfg.client \in ChainClients THEN sent
    ELSE TRUE

CommentBroadcast(cfg) == ~cfg.dry_run /\ cfg.client \in ChainClients

get_account_balance(accounts) == IF accounts.ok THEN accounts.hbd_balance ELSE 0

AccountResponses ==
    {[ok |-> FALSE, hbd_balance |-> 0]} \cup
    {[ok |-> TRUE, hbd_balance |-> b] : b \in {MinAccountBalance - 1, MinAccountBalance}}

\* Fault variant: the minimum balance is not looked at.
send_hbd_transfer_nobalance(cfg, transfers, today, current_balance, sent) ==
    IF cfg.dry_run THEN TRUE
    ELSE IF ~can_send_transfer_today(transfers, today, cfg.max_daily_transfers) THEN FALSE
    ELSE IF cfg.client \in ChainClients THEN sent
    ELSE TRUE

\* Fault variant: the daily cap is not looked at.
send_hbd_transfer_nocap(cfg, transfers, today, current_balance, sent) ==
    IF cfg.dry_run THEN TRUE
    ELSE IF current_balance < MinAccountBalance THEN FALSE
    ELSE IF cfg.client \in ChainClients THEN sent
    ELSE TRUE

\* Fault variant: the daily cap is looked at before the dry-run switch.
send_hbd_transfer_capfirst(cfg, transfers, today, current_balance, sent) ==
    IF ~can_send_transfer_today(transfers, today, cfg.max_daily_transfers) THEN FALSE
    ELSE IF cfg.dry_run THEN TRUE
    ELSE IF current_balance < MinAccountBalance THEN FALSE
    ELSE IF cfg.client \in ChainClients THEN sent
    ELSE TRUE

\* Fault variant: a balance of 0 is taken for "unknown" and let through.
send_hbd_transfer_zerounknown(cfg, transfers, today, current_balance, sent) ==
    IF cfg.dry_run THEN TRUE
    ELSE IF ~can_send_transfer_today(transfers, today, cfg.max_daily_transfers) THEN FALSE
    ELSE IF current_balance # 0 /\ current_balance < MinAccountBalance THEN FALSE
    ELSE IF cfg.client \in ChainClients THEN sent
    ELSE TRUE

\* send_hbd_transfer: dry run, the daily cap, the minimum balance, the broadcast.
send_hbd_transfer(cfg, transfers, today, current_balance, sent) ==
    IF cfg.dry_run THEN TRUE
    ELSE IF ~can_send_transfer_today(transfers, today, cfg.max_daily_transfers) THEN FALSE
    ELSE IF current_balance < MinAccountBalance THEN FALSE
    ELSE IF cfg.client \in ChainClients THEN sent
    ELSE TRUE

TransferBroadcast(cfg, transfers, today, current_balance) ==
    /\ ~cfg.dry_run
    /\ can_send_transfer_today(transfers, today, cfg.max_daily_transfers)
    /\ ~(current_balance < MinAccountBalance)
    /\ cfg.client \in ChainClients

upvote_post(cfg, sent) ==
    IF cfg.dry_run THEN TRUE
    ELSE IF cfg.client \in ChainClients THEN sent
    ELSE TRUE

\* main_advanced.py: no chain client; an action fails only by raising.
send_welcome_comment_advanced(cfg, raised) ==
    IF raised THEN FALSE ELSE TRUE

send_hbd_transfer_advanced(cfg, transfers, today, current_balance, raised) ==
    IF raised THEN FALSE
    ELSE IF cfg.dry_run THEN TRUE
    ELSE IF ~can_send_transfer_today(transfers, today, cfg.max_daily_transfers) THEN FALSE
    ELSE IF current_balance < MinAccountBalance THEN FALSE
    ELSE TRUE

upvote_post_advanced(cfg, raised) ==
    IF raised THEN FALSE ELSE TRUE

\* ------------------------------------------------------- monitor_community
Distinct(s) == \A i, j \in 1..Len(s) : s[i] = s[j] => i = j

\* What bridge.get_ranked_posts can answer: nothing (a failed call, or an
\* empty feed), or up to MaxFeed distinct entries in any order.
FeedResponses ==
    {<<>>} \cup {s \in UNION {[1..n -> PostIds] : n \in 1..MaxFeed} : Distinct(s)}

\* Fault variant: an entry of exactly 24 hours is dropped too.
TooOld_atwindow(p, t) == t - p.created >= DayTicks

TooOld(p, t) == t - p.created > DayTicks

RECURSIVE CandidatePosts(_, _, _)
CandidatePosts(response, tbl, t) ==
    IF response = <<>> THEN <<>>
    ELSE LET id == Head(response)
             rest == CandidatePosts(Tail(response), tbl, t)
         IN  IF is_post_processed(tbl, PostOf(id).author, PostOf(id).permlink) THEN rest
             ELSE IF TooOld(PostOf(id), t) THEN rest
             ELSE <<id>> \o rest

\* Fault variant: the freshness filter alone, no dedupe filter.
monitor_community_nodedupe(response, tbl, t) ==
    LET Fresh(id) == ~TooOld(PostOf(id), t)
    IN  SelectSeq(response, Fresh)

monitor_community(response, tbl, t) ==
    IF response = <<>> THEN <<>> ELSE CandidatePosts(response, tbl, t)

Dropped(response, tbl) ==
    {id \in Range(response) : is_post_processed(tbl, PostOf(id).author, PostOf(id).permlink)}

\* ------------------------------------------------------------ process_post
\* count_seen is today's transfer_count when send_hbd_transfer was entered,
\* balance_seen what get_account_balance answered; -1 where not read.
NoRun ==
    [commented |-> FALSE, hbd_sent |-> 0, upvoted |-> FALSE,
     r_comment |-> "none", r_transfer |-> "none", r_upvote |-> "none",
     count_seen |-> -1, balance_seen |-> -1]

Outcome(b) == IF b THEN "ok" ELSE "fail"

TransferCount(transfers, date) ==
    IF date \in DOMAIN transfers THEN transfers[date].transfer_count ELSE 0

Bump(ex, id, called) == IF called THEN [ex EXCEPT ![id] = @ + 1] ELSE ex

bot == <<pc, posts, post, run>>
history == <<executor, deduped>>
direct == <<ncalls, ret>>

MonitorCommunity ==
    /\ pc = "poll"
    /\ \E response \in FeedResponses :
         /\ posts' = monitor_community(response, processed_posts, now)
         /\ deduped' = Dropped(response, processed_posts)
    /\ pc' = "loop"
    /\ UNCHANGED <<config, now, store, post, run, failures, executor, direct>>

\* Fault variant: the loop moves past a post without processing it.
NextPost_dropping ==
    /\ pc = "loop"
    /\ posts # <<>>
    /\ posts' = Tail(posts)
    /\ deduped' = {}
    /\ UNCHANGED <<config, now, store, pc, post, run, failures, executor, direct>>

NextPost ==
    /\ pc = "loop"
    /\ posts # <<>>
    /\ post' = Head(posts)
    /\ posts' = Tail(posts)
    /\ run' = NoRun
    /\ pc' = "validate"
    /\ deduped' = {}
    /\ UNCHANGED <<config, now, store, failures, executor, direct>>

\* hive_api_call returned None (a request error, an HTTP error, an 'error'
\* answer): `if not response' logs a warning and returns [].
FeedFailure ==
    /\ pc = "poll"
    /\ posts' = monitor_community(<<>>, processed_posts, now)
    /\ deduped' = {}
    /\ pc' = "skipped"
    /\ UNCHANGED <<config, now, store, post, run, failures, executor, direct>>

\* An exception inside monitor_community's try (is_post_processed raising, an
\* entry without a key, a date strptime rejects): its except branch.
MonitorCommunityError ==
    /\ pc = "poll"
    /\ failures < MaxFailures
    /\ failures' = failures + 1
    /\ pc' = "monitor_except"
    /\ UNCHANGED <<config, now, store, posts, post, run, history, direct>>

\* Fault variant: the handler returns the entries of the feed it can use.
MonitorHandleError_partial ==
    /\ pc = "monitor_except"
    /\ UpdateDailyStats(0, 0, 0, 1)
    /\ \E response \in FeedResponses :
         posts' = monitor_community(response, processed_posts, now)
    /\ deduped' = {}
    /\ pc' = "loop"
    /\ UNCHANGED <<config, now, processed_posts, seq_id, post, run, failures, executor,
                   direct>>

\* except Exception in monitor_community: update_daily_stats(errors=1), return [].
MonitorHandleError ==
    /\ pc = "monitor_except"
    /\ UpdateDailyStats(0, 0, 0, 1)
    /\ posts' = <<>>
    /\ deduped' = {}
    /\ pc' = "loop"
    /\ UNCHANGED <<config, now, processed_posts, seq_id, post, run, failures, executor,
                   direct>>

\* That update_daily_stats raises: nothing in monitor_community catches it,
\* and run() calls monitor_community outside its per-post try.
MonitorHandlerError ==
    /\ pc = "monitor_except"
    /\ pc' = "run_except"
    /\ UNCHANGED <<config, now, store, posts, post, run, failures, history, direct>>

Sleep ==
    /\ pc \in {"loop", "skipped"}
    /\ posts = <<>>
    /\ pc' = "poll"
    /\ deduped' = {}
    /\ UNCHANGED <<config, now, store, posts, post, run, failures, executor, direct>>

\* Fault variant: a post that fails validation is recorded all the same.
Validate_recording ==
    /\ pc = "validate"
    /\ IF validate_post(PostOf(post), RequiredMetadata).is_valid
       THEN pc' = "comment"
       ELSE pc' = "record"
    /\ UNCHANGED <<config, now, store, posts, post, run, failures, history, direct>>

Validate ==
    /\ pc = "validate"
    /\ IF validate_post(PostOf(post), RequiredMetadata).is_valid
       THEN pc' = "comment" /\ UNCHANGED post
       ELSE pc' = "loop" /\ post' = "none"
    /\ UNCHANGED <<config, now, store, posts, run, failures, history, direct>>

\* Fault variant: a failed comment skips the transfer and the upvote.
SendWelcomeComment_blocking ==
    /\ pc = "comment"
    /\ \E sent \in BOOLEAN :
         LET r == send_welcome_comment(config, sent)
         IN  /\ run' = [run EXCEPT !.r_comment = Outcome(r),
                                   !.commented = IF r THEN TRUE ELSE @]
             /\ executor' = Bump(executor, post, CommentBroadcast(config) /\ r)
             /\ pc' = IF r THEN "transfer" ELSE "record"
    /\ UNCHANGED <<config, now, store, posts, post, failures, deduped, direct>>

SendWelcomeComment ==
    /\ pc = "comment"
    /\ \E sent \in BOOLEAN :
         LET r == send_welcome_comment(config, sent)
         IN  /\ run' = [run EXCEPT !.r_comment = Outcome(r),
                                   !.commented = IF r THEN TRUE ELSE @]
             /\ executor' = Bump(executor, post, CommentBroadcast(config) /\ r)
    /\ pc' = "transfer"
    /\ UNCHANGED <<config, now, store, posts, post, failures, deduped, direct>>

SendHbdTransfer ==
    /\ pc = "transfer"
    /\ \E sent \in BOOLEAN, accounts \in AccountResponses :
         LET today == Today(now)
             balance == get_account_balance(accounts)
             r == send_hbd_transfer(config, daily_transfers, today, balance, sent)
             capOk == can_send_transfer_today(daily_transfers, today,
                                              config.max_daily_transfers)
         IN  run' = [run EXCEPT
                       !.r_transfer = Outcome(r),
                       !.hbd_sent = IF r THEN TransferAmount ELSE @,
                       !.count_seen = TransferCount(daily_transfers, today),
                       !.balance_seen = IF config.dry_run \/ ~capOk THEN -1
                                        ELSE balance]
    /\ pc' = "upvote"
    /\ UNCHANGED <<config, now, store, posts, post, failures, history, direct>>

\* can_send_transfer_today raises inside send_hbd_transfer: caught there, False.
SendHbdTransferStoreError ==
    /\ pc = "transfer"
    /\ ~config.dry_run
    /\ failures < MaxFailures
    /\ failures' = failures + 1
    /\ run' = [run EXCEPT !.r_transfer = "fail"]
    /\ pc' = "upvote"
    /\ UNCHANGED <<config, now, store, posts, post, history, direct>>

\* Fault variant: a failed upvote is tried again.
UpvotePost_retry ==
    /\ pc = "upvote"
    /\ \E sent \in BOOLEAN :
         LET r == upvote_post(config, sent)
         IN  /\ run' = [run EXCEPT !.r_upvote = Outcome(r),
                                   !.upvoted = IF r THEN TRUE ELSE @]
             /\ pc' = IF r THEN "record" ELSE "upvote"
    /\ UNCHANGED <<config, now, store, posts, post, failures, history, direct>>

UpvotePost ==
    /\ pc = "upvote"
    /\ \E sent \in BOOLEAN :
         LET r == upvote_post(config, sent)
         IN  run' = [run EXCEPT !.r_upvote = Outcome(r),
                                !.upvoted = IF r THEN TRUE ELSE @]
    /\ pc' = "record"
    /\ UNCHANGED <<config, now, store, posts, post, failures, history, direct>>

\* Fault variant: a run with no successful action writes no record.
RecordPost_skipfailed ==
    /\ pc = "record"
    /\ IF run.commented \/ run.upvoted \/ run.hbd_sent > 0
       THEN RecordProcessedPost(PostOf(post).author, PostOf(post).permlink,
                                run.hbd_sent, run.upvoted, run.commented)
       ELSE UNCHANGED <<processed_posts, seq_id>>
    /\ pc' = "stats"
    /\ UNCHANGED <<config, now, daily_stats, daily_transfers, deltas, posts, post, run,
                   failures, history, direct>>

\* Fault variant: the record holds what was attempted, not what succeeded.
RecordPost_attempted ==
    /\ pc = "record"
    /\ RecordProcessedPost(PostOf(post).author, PostOf(post).permlink,
                           IF run.r_transfer # "none" THEN TransferAmount ELSE 0,
                           run.r_upvote # "none", run.r_comment # "none")
    /\ pc' = "stats"
    /\ UNCHANGED <<config, now, daily_stats, daily_transfers, deltas, posts, post, run,
                   failures, history, direct>>

\* Fault variant: the counters are updated where the record should be written.
RecordPost_countfirst ==
    /\ pc = "record"
    /\ UpdateDailyStats(1, run.hbd_sent, IF run.upvoted THEN 1 ELSE 0, 0)
    /\ pc' = "stats"
    /\ UNCHANGED <<config, now, processed_posts, seq_id, posts, post, run, failures,
                   history, direct>>

\* Fault variant: the record carries the day's running total, not the run's amount.
RecordPost_runningtotal ==
    /\ pc = "record"
    /\ RecordProcessedPost(PostOf(post).author, PostOf(post).permlink,
                           Coalesce(daily_stats, Today(now), "hbd_sent") + run.hbd_sent,
                           run.upvoted, run.commented)
    /\ pc' = "stats"
    /\ UNCHANGED <<config, now, daily_stats, daily_transfers, deltas, posts, post, run,
                   failures, history, direct>>

RecordPost ==
    /\ pc = "record"
    /\ RecordProcessedPost(PostOf(post).author, PostOf(post).permlink,
                           run.hbd_sent, run.upvoted, run.commented)
    /\ pc' = "stats"
    /\ UNCHANGED <<config, now, daily_stats, daily_transfers, deltas, posts, post, run,
                   failures, history, direct>>

\* Fault variant: an upvote is counted when attempted, not when it succeeded.
UpdateStats_attempted ==
    /\ pc = "stats"
    /\ UpdateDailyStats(1, run.hbd_sent, IF run.r_upvote # "none" THEN 1 ELSE 0, 0)
    /\ pc' = "loop"
    /\ post' = "none"
    /\ run' = NoRun
    /\ UNCHANGED <<config, now, processed_posts, seq_id, posts, failures, history, direct>>

UpdateStats ==
    /\ pc = "stats"
    /\ UpdateDailyStats(1, run.hbd_sent, IF run.upvoted THEN 1 ELSE 0, 0)
    /\ pc' = "loop"
    /\ post' = "none"
    /\ run' = NoRun
    /\ UNCHANGED <<config, now, processed_posts, seq_id, posts, failures, history, direct>>

\* record_processed_post or update_daily_stats raises: process_post's handler.
StoreError ==
    /\ pc \in {"record", "stats"}
    /\ failures < MaxFailures
    /\ failures' = failures + 1
    /\ run' = NoRun
    /\ pc' = "except"
    /\ UNCHANGED <<config, now, store, posts, post, history, direct>>

\* except Exception in process_post: update_daily_stats(errors=1), return False.
HandleError ==
    /\ pc = "except"
    /\ UpdateDailyStats(0, 0, 0, 1)
    /\ pc' = "loop"
    /\ post' = "none"
    /\ run' = NoRun
    /\ UNCHANGED <<config, now, processed_posts, seq_id, posts, failures, history, direct>>

\* The update_daily_stats of process_post's handler raises: run()'s per-post
\* except catches it.
HandlerError ==
    /\ pc = "except"
    /\ pc' = "inner_except"
    /\ UNCHANGED <<config, now, store, posts, post, run, failures, history, direct>>

\* run(): except Exception around process_post: update_daily_stats(errors=1).
InnerHandleError ==
    /\ pc = "inner_except"
    /\ UpdateDailyStats(0, 0, 0, 1)
    /\ pc' = "loop"
    /\ post' = "none"
    /\ run' = NoRun
    /\ UNCHANGED <<config, now, processed_posts, seq_id, posts, failures, history, direct>>

\* That update_daily_stats raises too: the exception leaves the for loop.
InnerHandlerError ==
    /\ pc = "inner_except"
    /\ post' = "none"
    /\ pc' = "run_except"
    /\ UNCHANGED <<config, now, store, posts, run, failures, history, direct>>

\* print_daily_stats, after the for loop: get_daily_stats raises, uncaught.
PrintDailyStatsError ==
    /\ pc = "loop"
    /\ posts = <<>>
    /\ failures < MaxFailures
    /\ failures' = failures + 1
    /\ pc' = "run_except"
    /\ UNCHANGED <<config, now, store, posts, post, run, history, direct>>

\* run(): the outer except Exception: update_daily_stats(errors=1), which
\* commits or raises, then `raise': run() is left.
RunHandleError ==
    /\ pc = "run_except"
    /\ \/ UpdateDailyStats(0, 0, 0, 1)
       \/ UNCHANGED store
    /\ pc' = "stopped"
    /\ UNCHANGED <<config, now, processed_posts, seq_id, posts, post, run, failures, history,
                   direct>>

\* The wall clock.  It is read by monitor_community, by send_hbd_transfer and
\* by update_daily_stats; a tick is taken at one point between any two reads.
Tick ==
    /\ pc \in {"poll", "upvote", "except"}
    /\ now < MaxNow
    /\ now' = now + 1
    /\ UNCHANGED <<config, store, bot, failures, history, direct>>

NoRet ==
    [op |-> "none", author |-> "", permlink |-> "", date |-> -1, cap |-> -1,
     result |-> FALSE, old |-> <<>>, arg |-> <<>>]

Configs == [dry_run : BOOLEAN, client : Clients, max_daily_transfers : 0..MaxCap]

Init ==
    /\ config \in Configs
    /\ now = 0
    /\ processed_posts = {}
    /\ seq_id = 0
    /\ daily_stats = <<>>
    /\ daily_transfers = <<>>
    /\ pc = "poll"
    /\ posts = <<>>
    /\ post = "none"
    /\ run = NoRun
    /\ failures = 0
    /\ executor = [id \in PostIds |-> 0]
    /\ deduped = {}
    /\ deltas = <<>>
    /\ ncalls = 0
    /\ ret = NoRet

Next ==
    \/ MonitorCommunity
    \/ NextPost
    \/ Sleep
    \/ Validate
    \/ SendWelcomeComment
    \/ SendHbdTransfer
    \/ SendHbdTransferStoreError
    \/ UpvotePost
    \/ RecordPost
    \/ UpdateStats
    \/ StoreError
    \/ HandleError
    \/ Tick
    \/ FeedFailure
    \/ MonitorCommunityError
    \/ MonitorHandleError
    \/ MonitorHandlerError
    \/ HandlerError
    \/ InnerHandleError
    \/ InnerHandlerError
    \/ PrintDailyStatsError
    \/ RunHandleError

Spec == Init /\ [][Next]_vars

\* ------------------------------------------- main_advanced.py's process_post
AdvValidate ==
    /\ pc = "validate"
    /\ IF validate_post_advanced(PostOf(post), RequiredMetadata).is_valid
       THEN pc' = "comment" /\ UNCHANGED post
       ELSE pc' = "loop" /\ post' = "none"
    /\ UNCHANGED <<config, now, store, posts, run, failures, history, direct>>

\* commented = self.send_welcome_comment(post); the rest runs `if commented:'.
AdvSendWelcomeComment ==
    /\ pc = "comment"
    /\ \E raised \in BOOLEAN :
         LET r == send_welcome_comment_advanced(config, raised)
         IN  /\ run' = [run EXCEPT !.r_comment = Outcome(r), !.commented = r]
             /\ pc' = IF r THEN "transfer" ELSE "record"
    /\ UNCHANGED <<config, now, store, posts, post, failures, history, direct>>

AdvSendHbdTransfer ==
    /\ pc = "transfer"
    /\ \E raised \in BOOLEAN, accounts \in AccountResponses :
         LET today == Today(now)
             balance == get_account_balance(accounts)
             r == send_hbd_transfer_advanced(config, daily_transfers, today, balance, raised)
             capOk == can_send_transfer_today(daily_transfers, today,
                                              config.max_daily_transfers)
         IN  run' = [run EXCEPT
                       !.r_transfer = Outcome(r),
                       !.hbd_sent = IF r THEN TransferAmount ELSE @,
                       !.count_seen = IF raised THEN -1
                                      ELSE TransferCount(daily_transfers, today),
                       !.balance_seen = IF config.dry_run \/ raised \/ ~capOk THEN -1
                                        ELSE balance]
    /\ pc' = "upvote"
    /\ UNCHANGED <<config, now, store, posts, post, failures, history, direct>>

AdvUpvotePost ==
    /\ pc = "upvote"
    /\ \E raised \in BOOLEAN :
         LET r == upvote_post_advanced(config, raised)
         IN  run' = [run EXCEPT !.r_upvote = Outcome(r), !.upvoted = r]
    /\ pc' = "record"
    /\ UNCHANGED <<config, now, store, posts, post, failures, history, direct>>

InitAdvanced ==
    /\ Init
    /\ config.client = "none"

NextAdvanced ==
    \/ MonitorCommunity
    \/ NextPost
    \/ Sleep
    \/ AdvValidate
    \/ AdvSendWelcomeComment
    \/ AdvSendHbdTransfer
    \/ AdvUpvotePost
    \/ RecordPost
    \/ UpdateStats
    \/ StoreError
    \/ HandleError
    \/ Tick

SpecAdvanced == InitAdvanced /\ [][NextAdvanced]_vars

\* --------------------------------------------- the loop with no exception
\* run() as one thread of control: each statement, once reached, is executed,
\* and nothing raises.  An action may still return False and a feed fetch may
\* still be skipped.
NextLive ==
    \/ MonitorCommunity
    \/ FeedFailure
    \/ NextPost
    \/ Sleep
    \/ Validate
    \/ SendWelcomeComment
    \/ SendHbdTransfer
    \/ UpvotePost
    \/ RecordPost
    \/ UpdateStats
    \/ Tick

SpecLive == Init /\ [][NextLive]_vars /\ WF_vars(NextLive)


\* -------------------------------- DatabaseManager under a direct caller
\* test_advanced.py drives the store without the bot: any call, any argument.
RowValues(r) == <<r.hbd_sent, r.upvoted, r.commented>>

StoredValues(tbl, author, permlink) ==
    {RowValues(r) : r \in MatchingRows(tbl, author, permlink)}

StatsValues(stats, date) ==
    IF date \in DOMAIN stats
    THEN <<stats[date].posts_processed, stats[date].hbd_sent,
           stats[date].upvotes_given, stats[date].errors>>
    ELSE <<>>

DbIsPostProcessed ==
    /\ pc = "direct"
    /\ \E key \in Keys :
         ret' = [NoRet EXCEPT !.op = "is_post_processed", !.author = key[1],
                              !.permlink = key[2],
                              !.result = is_post_processed(processed_posts, key[1], key[2])]
    /\ UNCHANGED <<config, now, store, bot, failures, history, ncalls>>

DbRecordProcessedPost ==
    /\ pc = "direct"
    /\ ncalls < MaxCalls
    /\ \E key \in Keys, hbd_sent \in {0, TransferAmount},
          upvoted \in BOOLEAN, commented \in BOOLEAN :
         LET author == key[1]
             permlink == key[2]
         IN
         /\ RecordProcessedPost(author, permlink, hbd_sent, upvoted, commented)
         /\ ret' = [NoRet EXCEPT
                      !.op = "record_processed_post", !.author = author,
                      !.permlink = permlink,
                      !.result = is_post_processed(processed_posts, author, permlink),
                      !.old = IF is_post_processed(processed_posts, author, permlink)
                              THEN CHOOSE v \in StoredValues(processed_posts, author,
                                                             permlink) : TRUE
                              ELSE <<>>,
                      !.arg = <<hbd_sent, upvoted, commented>>]
    /\ ncalls' = ncalls + 1
    /\ UNCHANGED <<config, now, daily_stats, daily_transfers, deltas, bot, failures, history>>

\* The argument shapes update_daily_stats is called with: one processed post
\* with an amount and an upvote flag, or one error.
UpdateCalls ==
    {<<1, hbd_sent, upvotes_given, 0>> : hbd_sent \in 0..MaxDelta, upvotes_given \in 0..1}
        \cup {<<0, 0, 0, 1>>}

DbUpdateDailyStats ==
    /\ pc = "direct"
    /\ ncalls < MaxCalls
    /\ \E call \in UpdateCalls :
         LET posts_processed == call[1]
             hbd_sent == call[2]
             upvotes_given == call[3]
             errors == call[4]
         IN
         /\ UpdateDailyStats(posts_processed, hbd_sent, upvotes_given, errors)
         /\ ret' = [NoRet EXCEPT
                      !.op = "update_daily_stats", !.date = Today(now),
                      !.result = Today(now) \in DOMAIN daily_stats,
                      !.old = StatsValues(daily_stats, Today(now)),
                      !.arg = <<posts_processed, hbd_sent, upvotes_given, errors>>]
    /\ ncalls' = ncalls + 1
    /\ UNCHANGED <<config, now, processed_posts, seq_id, bot, failures, history>>

DbCanSendTransferToday ==
    /\ pc = "direct"
    /\ \E cap \in 0..MaxCap + 1 :
         ret' = [NoRet EXCEPT
                   !.op = "can_send_transfer_today", !.cap = cap, !.date = Today(now),
                   !.result = can_send_transfer_today(daily_transfers, Today(now), cap)]
    /\ UNCHANGED <<config, now, store, bot, failures, history, ncalls>>

DbGetDailyStats ==
    /\ pc = "direct"
    /\ \E date \in 0..Today(MaxNow) :
         LET stats == get_daily_stats(daily_stats, date)
         IN  ret' = [NoRet EXCEPT
                       !.op = "get_daily_stats", !.date = date,
                       !.result = stats.date # -1,
                       !.arg = <<stats.posts_processed, stats.hbd_sent,
                                 stats.upvotes_given, stats.errors>>]
    /\ UNCHANGED <<config, now, store, bot, failures, history, ncalls>>

\* Midnight passes: the store reads the clock for its date alone.
DbTick ==
    /\ pc = "direct"
    /\ now + DayTicks <= MaxNow
    /\ now' = now + DayTicks
    /\ UNCHANGED <<config, store, bot, failures, history, direct>>

InitDB ==
    /\ config = [dry_run |-> FALSE, client |-> "none", max_daily_transfers |-> 0]
    /\ now = 0
    /\ processed_posts = {}
    /\ seq_id = 0
    /\ daily_stats = <<>>
    /\ daily_transfers = <<>>
    /\ pc = "direct"
    /\ posts = <<>>
    /\ post = "none"
    /\ run = NoRun
    /\ failures = 0
    /\ executor = [id \in PostIds |-> 0]
    /\ deduped = {}
    /\ deltas = <<>>
    /\ ncalls = 0
    /\ ret = NoRet

NextDB ==
    \/ DbIsPostProcessed
    \/ DbRecordProcessedPost
    \/ DbUpdateDailyStats
    \/ DbCanSendTransferToday
    \/ DbGetDailyStats
    \/ DbTick

SpecDB == InitDB /\ [][NextDB]_vars

\* ------------------------------------- validate_post under a direct caller
\* test_advanced.py calls bot.validate_post on post dicts of its own: here
\* `post' is that dict and config carries required_metadata.
Ben1 == [account |-> "hiveecuador", weight |-> 8000]

Ben2 == [account |-> "menobass", weight |-> 500]

AllFields == {"app", "developer", "tags", "beneficiaries", "country", "onboarder", "image"}

\* Metadata dicts: any of the keys absent, a foreign app, one tag of two, a
\* beneficiary at another weight, an empty onboarder.
MetadataInputs ==
    {[has |-> AllFields \ absent, app |-> app, developer |-> "menobass", tags |-> tags,
      beneficiaries |-> bens, country |-> "Ecuador", onboarder |-> onboarder,
      image |-> "selfie.jpg"] :
        absent \in SUBSET {"app", "developer", "tags", "beneficiaries", "country", "image"},
        app \in {"checkinecuador/1.0.0", "peakd/2024.1"},
        tags \in {<<"introduceyourself", "checkin">>, <<"checkin">>},
        bens \in {<<Ben1>>, <<[account |-> "hiveecuador", weight |-> 500]>>},
        onboarder \in {"some_user", ""}}

BeneficiaryExtension(bens) ==
    [is_list |-> TRUE, len |-> 2, tag |-> 0, has_beneficiaries |-> TRUE,
     beneficiaries |-> bens]

PostInputs ==
    {[author |-> "alice", permlink |-> "hola", created |-> 0, body_len |-> body_len,
      json_metadata |-> [kind |-> kind, val |-> m],
      beneficiaries |-> direct_beneficiaries, extensions |-> extensions] :
        body_len \in {MinBodyLen - 1, MinBodyLen},
        kind \in {"dict", "str", "badstr"},
        m \in MetadataInputs,
        direct_beneficiaries \in {<<>>, <<Ben1>>},
        extensions \in {<<>>, <<BeneficiaryExtension(<<Ben2>>)>>,
                        <<[BeneficiaryExtension(<<Ben2>>) EXCEPT !.tag = 1]>>}}

\* required_metadata: the documented one, one with a second beneficiary and a
\* third tag, and an empty one (every .get answers None or []).
RequirementInputs ==
    {RequiredMetadata,
     [RequiredMetadata EXCEPT !.beneficiaries = <<Ben1, Ben2>>,
                              !.tags = <<"introduceyourself", "checkin", "ecuador">>],
     [app |-> None, developer |-> None, tags |-> <<>>, beneficiaries |-> <<>>,
      country |-> None, required_fields |-> <<>>]}

\* post_beneficiaries is the list inside a dict json_metadata when the key is
\* there, and .extend grows that list in place; a str json_metadata is parsed
\* into a dict of the call's own, and a missing key gives a fresh [].
\* Fault variant: the metadata's list is replaced by the other two sources.
PostAfterValidate_replacing(p) ==
    IF p.json_metadata.kind = "dict" /\ "beneficiaries" \in p.json_metadata.val.has
    THEN [p EXCEPT !.json_metadata.val.beneficiaries =
                       p.beneficiaries \o FlattenExtensions(p.extensions)]
    ELSE p

PostAfterValidate(p) ==
    IF p.json_metadata.kind = "dict" /\ "beneficiaries" \in p.json_metadata.val.has
    THEN [p EXCEPT !.json_metadata.val.beneficiaries =
                       MergedBeneficiaries(p, p.json_metadata.val)]
    ELSE p

CallValidatePost ==
    /\ pc = "direct"
    /\ ncalls < MaxCalls
    /\ LET validation == validate_post(post, config.required_metadata)
       IN  ret' = [NoRet EXCEPT !.op = "validate_post", !.result = validation.is_valid,
                                !.old = post, !.arg = validation.reasons]
    /\ post' = PostAfterValidate(post)
    /\ ncalls' = ncalls + 1
    /\ UNCHANGED <<config, now, store, pc, posts, run, failures, history>>

InitValidate ==
    /\ \E req \in RequirementInputs :
         config = [dry_run |-> TRUE, client |-> "none", max_daily_transfers |-> 0,
                   required_metadata |-> req]
    /\ now = 0
    /\ processed_posts = {}
    /\ seq_id = 0
    /\ daily_stats = <<>>
    /\ daily_transfers = <<>>
    /\ pc = "direct"
    /\ posts = <<>>
    /\ post \in PostInputs
    /\ run = NoRun
    /\ failures = 0
    /\ executor = [id \in PostIds |-> 0]
    /\ deduped = {}
    /\ deltas = <<>>
    /\ ncalls = 0
    /\ ret = NoRet

NextValidate == CallValidatePost

SpecValidate == InitValidate /\ [][NextValidate]_vars


\* ================================================================ properties
Processed(id) == is_post_processed(processed_posts, PostOf(id).author, PostOf(id).permlink)

InRun == pc \in {"validate", "comment", "transfer", "upvote", "record"}

RowsOfPost == StoredValues(processed_posts, PostOf(post).author, PostOf(post).permlink)

GatesPassed ==
    /\ run.count_seen >= 0
    /\ run.count_seen < config.max_daily_transfers
    /\ run.balance_seen >= MinAccountBalance

\* C1: over any sequence of poll cycles, the actions of a post are executed in
\* at most one process_post run; re-polling a feed that still holds the post
\* never executes them a second time.  Stated on the comment, the first of the
\* three actions: no post has its comment reach the chain in two runs.
C1_ActionsInAtMostOneRun == \A id \in PostIds : executor[id] <= 1

\* C2: once a Processed-Post Record exists for (author, permlink), process_post
\* is not invoked for that key again: monitor_community delivers no entry that
\* is_post_processed holds for, every such entry is dropped, and a running
\* process_post has no record of its post until it writes one -- also when the
\* record has no successful action.
C2_RecordedPostNeverRunsAgain ==
    /\ \A i \in 1..Len(posts) : ~Processed(posts[i])
    /\ \A id \in deduped : Processed(id) /\ id \notin Range(posts)
    /\ InRun => ~Processed(post)

C2_ZeroActionRecordDropped ==
    \E id \in deduped :
        <<0, FALSE, FALSE>> \in StoredValues(processed_posts, PostOf(id).author,
                                             PostOf(id).permlink)

\* C3: the store holds at most one Processed-Post Record per (author,
\* permlink); record_processed_post on a key leaves exactly the values it was
\* called with under that key, neither a second row nor the old values added.
C3_OneRecordLastWriteWins ==
    /\ \A r1, r2 \in processed_posts :
         (r1.author = r2.author /\ r1.permlink = r2.permlink) => r1 = r2
    /\ ret.op = "record_processed_post" =>
         StoredValues(processed_posts, ret.author, ret.permlink) = {ret.arg}

C3_ReplacedARecord ==
    /\ ret.op = "record_processed_post"
    /\ ret.result
    /\ ret.old # ret.arg
    /\ ret.old[1] = TransferAmount
    /\ ret.arg[1] = TransferAmount
    /\ Cardinality(processed_posts) = 1

\* C4: when the day's transfer_count is at or above the cap it was called
\* with, can_send_transfer_today returns false (it takes no balance).
C4_CapReachedRefuses ==
    ret.op = "can_send_transfer_today" =>
        (TransferCount(daily_transfers, ret.date) >= ret.cap => ~ret.result)

C4_CapOneCountOne ==
    /\ ret.op = "can_send_transfer_today"
    /\ ret.cap = 1
    /\ TransferCount(daily_transfers, ret.date) = 1
    /\ ~ret.result

\* C5, as stated: process_post reports a transfer as sent, and records a
\* positive hbd_sent, only if both gates passed when checked: today's
\* transfer_count below the cap and the balance at least the minimum.
C5_SentOnlyIfGatesPassed ==
    (pc \in {"upvote", "record", "stats"} /\ run.r_transfer = "ok") => GatesPassed

\* C5, amended: with dry_run off, a transfer is reported sent and a positive
\* hbd_sent recorded only if both gates passed; when a gate fails the transfer
\* is skipped with hbd_sent 0 and the comment and the upvote are still
\* attempted.
C5_SentOnlyIfGatesPassedLive ==
    ~config.dry_run =>
        /\ (pc \in {"upvote", "record", "stats"} /\ run.r_transfer = "ok") => GatesPassed
        /\ (pc \in {"upvote", "record", "stats"} /\ run.hbd_sent > 0) =>
             run.r_transfer = "ok"
        /\ (pc = "stats" /\ ~GatesPassed) => \A v \in RowsOfPost : v[1] = 0
        /\ (pc \in {"record", "stats"} /\ ~GatesPassed) =>
             /\ run.r_transfer = "fail"
             /\ run.hbd_sent = 0
             /\ run.r_comment # "none"
             /\ run.r_upvote # "none"

C5_SentAtMinimumBalance ==
    /\ ~config.dry_run
    /\ pc = "stats"
    /\ run.r_transfer = "ok"
    /\ run.count_seen = 0
    /\ run.balance_seen = MinAccountBalance
    /\ <<TransferAmount, TRUE, TRUE>> \in RowsOfPost

\* C6, as stated: in every configuration mode the transfer_count of a date
\* never exceeds max_daily_transfers.
C6_CountWithinCap ==
    \A d \in DOMAIN daily_transfers :
        daily_transfers[d].transfer_count <= config.max_daily_transfers

\* C6, amended: with dry_run off, the transfer_count of a date never exceeds
\* max_daily_transfers.
C6_CountWithinCapLive ==
    ~config.dry_run =>
        \A d \in DOMAIN daily_transfers :
            daily_transfers[d].transfer_count <= config.max_daily_transfers

C6_RefusedAtCap ==
    /\ ~config.dry_run
    /\ pc = "stats"
    /\ config.max_daily_transfers >= 1
    /\ run.count_seen = config.max_daily_transfers
    /\ run.r_transfer = "fail"
    /\ TransferCount(daily_transfers, Today(now)) = config.max_daily_transfers

\* C7: for every sequence of update_daily_stats calls, each counter of a date's
\* Daily Aggregate equals the sum of the deltas passed for that date; the first
\* call creates the row with its deltas, a later one adds to the row.
C7_CountersAreSums ==
    /\ daily_stats = deltas
    /\ ret.op = "update_daily_stats" =>
         /\ ret.date \in DOMAIN daily_stats
         /\ \A i \in 1..4 :
              StatsValues(daily_stats, ret.date)[i]
                  = (IF ret.result THEN ret.old[i] ELSE 0) + ret.arg[i]

C7_TwoUpdatesAdded ==
    /\ ret.op = "update_daily_stats"
    /\ ret.result
    /\ ret.arg[2] > 0
    /\ daily_stats[ret.date].posts_processed >= 2
    /\ daily_stats[ret.date].hbd_sent > ret.arg[2]

\* C8: the record process_post writes holds exactly what succeeded in the run:
\* commented iff the comment returned success, upvoted iff the upvote did,
\* hbd_sent positive iff the transfer did.
C8_RecordIsWhatSucceeded ==
    pc = "stats" =>
        RowsOfPost = {<<IF run.r_transfer = "ok" THEN TransferAmount ELSE 0,
                        run.r_upvote = "ok", run.r_comment = "ok">>}

C8_AttemptedNotDone ==
    /\ pc = "stats"
    /\ run.r_comment = "fail"
    /\ run.r_transfer = "ok"
    /\ run.r_upvote = "fail"
    /\ RowsOfPost = {<<TransferAmount, FALSE, FALSE>>}

CommentAloneFailed ==
    /\ run.r_comment = "fail"
    /\ run.r_transfer = "ok"
    /\ run.r_upvote = "ok"

\* C9: in main.py the three actions are independent: whatever their outcomes
\* all three are attempted; when the comment fails and the other two succeed
\* the record is (commented false, hbd_sent the transfer amount, upvoted true)
\* and the day's aggregate gains the amount and one upvote.
C9_ActionsIndependent ==
    /\ [](pc \in {"record", "stats"} =>
            /\ run.r_comment # "none"
            /\ run.r_transfer # "none"
            /\ run.r_upvote # "none")
    /\ []((pc = "stats" /\ CommentAloneFailed) =>
            RowsOfPost = {<<TransferAmount, TRUE, FALSE>>})
    /\ [][(pc = "stats" /\ pc' = "loop" /\ CommentAloneFailed) =>
            /\ daily_stats'[Today(now)].hbd_sent
                 = Coalesce(daily_stats, Today(now), "hbd_sent") + TransferAmount
            /\ daily_stats'[Today(now)].upvotes_given
                 = Coalesce(daily_stats, Today(now), "upvotes_given") + 1]_vars

C9_CommentFailedOthersDone ==
    /\ pc = "loop"
    /\ post = "none"
    /\ {RowValues(r) : r \in processed_posts} = {<<TransferAmount, TRUE, FALSE>>}
    /\ \E d \in DOMAIN daily_stats :
         StatsValues(daily_stats, d) = <<1, TransferAmount, 1, 0>>

\* C10: in main_advanced.py a failed comment does not block the transfer and
\* the upvote: both are still attempted.
C10_FailedCommentDoesNotBlock ==
    (pc \in {"record", "stats"} /\ run.r_comment = "fail") =>
        (run.r_transfer # "none" /\ run.r_upvote # "none")

Valid(id) == validate_post(PostOf(id), RequiredMetadata).is_valid

AllAttempted ==
    /\ run.r_comment # "none"
    /\ run.r_transfer # "none"
    /\ run.r_upvote # "none"

\* C11: when validation of a post fails, process_post returns with no effect:
\* the store (records, aggregates, transfer counters) is unchanged and no
\* action is attempted; the post never has a record, so it stays eligible.
C11_FailedValidationHasNoEffect ==
    /\ [](\A id \in PostIds : ~Valid(id) => (~Processed(id) /\ executor[id] = 0))
    /\ [][(pc = "validate" /\ ~Valid(post)) =>
            (UNCHANGED <<store, executor>> /\ pc' = "loop" /\ post' = "none")]_vars

C11_InvalidPostOverFilledStore ==
    /\ pc = "validate"
    /\ ~Valid(post)
    /\ now >= 1
    /\ processed_posts # {}
    /\ DOMAIN daily_transfers # {}

\* C12: every post that passes validation is recorded at the end of its run
\* whatever the actions returned: the three actions are attempted one after
\* the other, then record_processed_post writes the post's one row, once, also
\* when all three failed.
C12_ValidPostRecordedOnce ==
    /\ [](pc = "stats" =>
            /\ AllAttempted
            /\ Cardinality(MatchingRows(processed_posts, PostOf(post).author,
                                        PostOf(post).permlink)) = 1
            /\ \E r \in MatchingRows(processed_posts, PostOf(post).author,
                                     PostOf(post).permlink) : r.id = seq_id)
    /\ [][(pc = "validate" /\ Valid(post)) => pc' = "comment"]_vars
    /\ [][pc = "comment" => pc' = "transfer"]_vars
    /\ [][pc = "transfer" => pc' = "upvote"]_vars
    /\ [][pc = "upvote" => pc' \in {"upvote", "record"}]_vars
    /\ [][(pc = "record" /\ pc' # "except") => pc' = "stats"]_vars
    /\ [][processed_posts' # processed_posts =>
            /\ pc = "record"
            /\ pc' = "stats"
            /\ AllAttempted
            /\ seq_id' = seq_id + 1]_vars

C12_AllFailedStillRecorded ==
    /\ pc = "stats"
    /\ run.r_comment = "fail"
    /\ run.r_transfer = "fail"
    /\ run.r_upvote = "fail"
    /\ RowsOfPost = {<<0, FALSE, FALSE>>}

ErrorsToday == Coalesce(daily_stats, Today(now), "errors")

StatsToday ==
    <<Coalesce(daily_stats, Today(now), "posts_processed"),
      Coalesce(daily_stats, Today(now), "hbd_sent"),
      Coalesce(daily_stats, Today(now), "upvotes_given"),
      Coalesce(daily_stats, Today(now), "errors")>>

\* C13: an exception raised while a post is processed is caught at the
\* per-post boundary (process_post's handler, or run()'s handler around it):
\* today's errors counter goes up by exactly 1 and the loop goes on with the
\* posts still to process.
C13_CaughtCountedLoopGoesOn ==
    [][(pc \in {"except", "inner_except"}) =>
         (\/ pc' = pc
          \/ pc = "except" /\ pc' = "inner_except"
          \/ /\ pc' = "loop"
             /\ posts' = posts
             /\ daily_stats'[Today(now)].errors = ErrorsToday + 1)]_vars

\* C14: no failure of the feed, of an action, of the balance lookup or of the
\* store makes run() leave its loop.
C14_RunNeverLeavesLoop == pc # "stopped"

\* C15: a process_post run that passes validation and completes changes
\* today's Daily Aggregate by exactly posts_processed + 1, hbd_sent + the
\* amount transferred (0 when the transfer did not succeed), upvotes_given + 1
\* iff the upvote succeeded, errors + 0; no other date changes.
C15_CompletedRunAggregateDelta ==
    [][(pc = "stats" /\ pc' = "loop") =>
         (/\ StatsValues(daily_stats', Today(now))
               = <<StatsToday[1] + 1,
                   StatsToday[2] + (IF run.r_transfer = "ok" THEN TransferAmount ELSE 0),
                   StatsToday[3] + (IF run.r_upvote = "ok" THEN 1 ELSE 0),
                   StatsToday[4]>>
          /\ \A d \in DOMAIN daily_stats : d # Today(now) => daily_stats'[d] = daily_stats[d]
          /\ DOMAIN daily_stats' = DOMAIN daily_stats \cup {Today(now)})]_vars

C15_TwoRunsOneTransferOneUpvote ==
    /\ pc = "loop"
    /\ post = "none"
    /\ StatsValues(daily_stats, Today(now)) = <<2, TransferAmount, 1, 0>>
    /\ {RowValues(r) : r \in processed_posts}
         = {<<TransferAmount, FALSE, TRUE>>, <<0, TRUE, FALSE>>}

UpdateCallStep == ncalls' # ncalls /\ ret'.op = "update_daily_stats"

\* C16, as stated: an update_daily_stats call with hbd_sent 0 leaves the
\* daily_transfers table unchanged; one with a positive hbd_sent adds 1 to
\* today's transfer_count and the amount to total_amount.
C16_ZeroDeltaLeavesTableUnchanged ==
    [][UpdateCallStep =>
         (IF ret'.arg[2] = 0
          THEN daily_transfers' = daily_transfers
          ELSE /\ daily_transfers'[ret'.date].transfer_count
                    = Coalesce(daily_transfers, ret'.date, "transfer_count") + 1
               /\ daily_transfers'[ret'.date].total_amount
                    = Coalesce(daily_transfers, ret'.date, "total_amount") + ret'.arg[2])]_vars

\* C16, amended: an update_daily_stats call with hbd_sent 0 leaves every
\* date's transfer_count and total_amount as they were, writing only a row of
\* zeros for today when today has none; one with a positive hbd_sent adds 1 to
\* today's transfer_count and the amount to total_amount; no call changes
\* another date's row.
C16_ZeroDeltaLeavesCountersUnchanged ==
    [][UpdateCallStep =>
         (/\ DOMAIN daily_transfers' = DOMAIN daily_transfers \cup {ret'.date}
          /\ \A d \in DOMAIN daily_transfers :
               d # ret'.date => daily_transfers'[d] = daily_transfers[d]
          /\ daily_transfers'[ret'.date].transfer_count
               = Coalesce(daily_transfers, ret'.date, "transfer_count")
                   + (IF ret'.arg[2] > 0 THEN 1 ELSE 0)
          /\ daily_transfers'[ret'.date].total_amount
               = Coalesce(daily_transfers, ret'.date, "total_amount") + ret'.arg[2])]_vars

C16_ErrorUpdateAfterATransfer ==
    /\ ret.op = "update_daily_stats"
    /\ ret.arg = <<0, 0, 0, 1>>
    /\ ret.result
    /\ daily_transfers[ret.date] = [transfer_count |-> 1, total_amount |-> 1]

\* C17: when fetching the feed fails the cycle is skipped and the failure is
\* counted in today's errors counter.
C17_FetchFailureCounted == pc = "skipped" => ErrorsToday >= 1

Age(id) == now - PostOf(id).created

\* C18: no feed entry older than 24 hours at fetch time is delivered to the
\* Post Processor, and every entry without a record whose age is at most 24
\* hours is: whatever the feed answers at a point where the loop fetches, and
\* in every fetch step the loop takes.
C18_FreshnessWindow ==
    /\ [](pc = "poll" =>
            \A response \in FeedResponses :
                LET out == monitor_community(response, processed_posts, now)
                IN  /\ \A i \in 1..Len(out) : Age(out[i]) <= DayTicks
                    /\ \A j \in 1..Len(response) :
                         (~Processed(response[j]) /\ Age(response[j]) <= DayTicks)
                             => response[j] \in Range(out))
    /\ [][(pc = "poll" /\ pc' = "loop") =>
            (\A i \in 1..Len(posts') : Age(posts'[i]) <= DayTicks)]_vars

C18_OneBeyondOneAtTheWindow ==
    /\ pc = "poll"
    /\ \E id \in PostIds : ~Processed(id) /\ Age(id) > DayTicks
    /\ \E id \in PostIds : ~Processed(id) /\ Age(id) = DayTicks
    /\ processed_posts # {}

\* C19: in dry-run mode each of the three actions reports success, with no
\* call to the chain client and without the cap or the balance being looked
\* at: no action of a run fails, the balance is never read, no comment reaches
\* the chain, and every record written is (transfer amount, upvoted,
\* commented), the record of the run that just ended included.
C19_DryRunAllSucceedNoExecutor ==
    config.dry_run =>
        /\ \A id \in PostIds :
             /\ executor[id] = 0
             /\ StoredValues(processed_posts, PostOf(id).author, PostOf(id).permlink)
                    \subseteq {<<TransferAmount, TRUE, TRUE>>}
        /\ run.r_comment # "fail" /\ run.r_transfer # "fail" /\ run.r_upvote # "fail"
        /\ run.balance_seen = -1
        /\ \A b \in 0..MinAccountBalance :
             ~TransferBroadcast(config, daily_transfers, Today(now), b)
        /\ ~CommentBroadcast(config)
        /\ pc = "stats" => RowsOfPost = {<<TransferAmount, TRUE, TRUE>>}

C19_DryRunRecordedAtCapZero ==
    /\ config.dry_run
    /\ config.client \in ChainClients
    /\ config.max_daily_transfers = 0
    /\ pc = "stats"
    /\ run.count_seen = 0
    /\ RowsOfPost = {<<TransferAmount, TRUE, TRUE>>}
    /\ executor[post] = 0

\* What each check reports when it fails, in the words of the contract.
Required(v) == v # None /\ v # ""

Given(m, key) == IF key \in m.has THEN m[key] ELSE None

AppFailure(m, req) ==
    IF Required(req.app) /\ Given(m, "app") # req.app
    THEN <<Reason("App mismatch", <<req.app, Given(m, "app")>>)>> ELSE <<>>

DeveloperFailure(m, req) ==
    IF Required(req.developer) /\ Given(m, "developer") # req.developer
    THEN <<Reason("Developer mismatch", <<req.developer, Given(m, "developer")>>)>>
    ELSE <<>>

TagsFailure(m, req) ==
    LET tags == IF "tags" \in m.has THEN Range(m.tags) ELSE {}
        Lacking(tag) == tag \notin tags
    IN  IF \E i \in 1..Len(req.tags) : Lacking(req.tags[i])
        THEN <<Reason("Missing required tags", SelectSeq(req.tags, Lacking))>>
        ELSE <<>>

BeneficiaryFailures(p, m, req) ==
    LET Lacking(b) == b \notin Range(MergedBeneficiaries(p, m))
        lacking == SelectSeq(req.beneficiaries, Lacking)
    IN  [i \in 1..Len(lacking) |->
            Reason("Missing beneficiary",
                   <<lacking[i].account, ToString(lacking[i].weight)>>)]

CountryFailure(m, req) ==
    IF Required(req.country) /\ Given(m, "country") # req.country
    THEN <<Reason("Country mismatch", <<req.country, Given(m, "country")>>)>> ELSE <<>>

FieldFailures(m, req) ==
    LET Lacking(field) == ~Required(Given(m, field))
        lacking == SelectSeq(req.required_fields, Lacking)
    IN  [i \in 1..Len(lacking) |-> Reason("Missing required field", <<lacking[i]>>)]

BodyFailure(p) ==
    IF p.body_len < MinBodyLen
    THEN <<Reason("Post body too short for introduction", <<>>)>> ELSE <<>>

\* C20: validation never short-circuits once the metadata has parsed, and
\* evaluates in the order app, developer, tags, beneficiaries, country,
\* required fields, body length: the reasons returned are the concatenation,
\* in that order, of what every failing check reports, the missing tags as one
\* reason, each missing beneficiary and each missing field as a reason of its
\* own.
C20_ReasonsAreAllFailuresInOrder ==
    (ret.op = "validate_post" /\ ret.old.json_metadata.kind # "badstr") =>
        LET p == ret.old
            m == p.json_metadata.val
            req == config.required_metadata
        IN  ret.arg = AppFailure(m, req) \o DeveloperFailure(m, req) \o TagsFailure(m, req)
                        \o BeneficiaryFailures(p, m, req) \o CountryFailure(m, req)
                        \o FieldFailures(m, req) \o BodyFailure(p)

C20_EveryCheckFailedAtOnce ==
    /\ ret.op = "validate_post"
    /\ ~ret.result
    /\ Len(ret.arg) = 9
    /\ [i \in 1..9 |-> ret.arg[i].check]
         = <<"App mismatch", "Developer mismatch", "Missing required tags",
             "Missing beneficiary", "Missing beneficiary", "Country mismatch",
             "Missing required field", "Missing required field",
             "Post body too short for introduction">>
    /\ ret.arg[3].detail = <<"introduceyourself", "ecuador">>


One(b) == IF b THEN 1 ELSE 0

\* The number of requirement checks a post violates: app, developer, tags,
\* each required beneficiary, country, each required field, body length.
Violations(p, req) ==
    LET m == p.json_metadata.val
        tags == IF "tags" \in m.has THEN Range(m.tags) ELSE {}
        bens == Range(MergedBeneficiaries(p, m))
    IN  One(Required(req.app) /\ Given(m, "app") # req.app)
        + One(Required(req.developer) /\ Given(m, "developer") # req.developer)
        + One(\E i \in 1..Len(req.tags) : req.tags[i] \notin tags)
        + Cardinality({i \in 1..Len(req.beneficiaries) : req.beneficiaries[i] \notin bens})
        + One(Required(req.country) /\ Given(m, "country") # req.country)
        + Cardinality({i \in 1..Len(req.required_fields) :
                          ~Required(Given(m, req.required_fields[i]))})
        + One(p.body_len < MinBodyLen)

\* C21: a post that violates N independent requirement checks gets at least N
\* reasons (its metadata having parsed), and the result is valid iff its
\* reasons list is empty.
C21_ReasonsCoverViolations ==
    ret.op = "validate_post" =>
        /\ ret.result <=> (ret.arg = <<>>)
        /\ ret.old.json_metadata.kind # "badstr" =>
             Len(ret.arg) >= Violations(ret.old, config.required_metadata)

C21_FourViolationsFourReasons ==
    /\ ret.op = "validate_post"
    /\ ret.old.json_metadata.kind = "str"
    /\ Violations(ret.old, config.required_metadata) = 4
    /\ Len(ret.arg) = 4
    /\ ret.arg[3].check = "Missing required field"
    /\ ret.arg[4].check = "Missing required field"
    /\ ~ret.result


\* C22: metadata text that fails to parse makes validate_post return at once
\* with valid = false and exactly one reason, whatever the body length and the
\* requirements are; the call returns (it does not raise) and touches neither
\* the store nor the post.
C22_ParseFailureOneReason ==
    [][(pc = "direct" /\ post.json_metadata.kind = "badstr") =>
          /\ ret'.op = "validate_post"
          /\ ~ret'.result
          /\ Len(ret'.arg) = 1
          /\ ret'.arg[1].check = "Invalid JSON metadata"
          /\ UNCHANGED <<store, post, pc>>]_vars

C22_UnparsableShortBodyRejected ==
    /\ ret.op = "validate_post"
    /\ ret.old.json_metadata.kind = "badstr"
    /\ ret.old.body_len < MinBodyLen
    /\ config.required_metadata = RequiredMetadata
    /\ ret.arg = <<Reason("Invalid JSON metadata", <<>>)>>
    /\ daily_stats = <<>>
    /\ processed_posts = {}


\* C23: validation is deterministic: a call of validate_post on the post
\* object an earlier call was made on, with the same requirements, returns the
\* same valid and the same reasons in the same order.
C23_RepeatedCallSameResult ==
    [][(ret.op = "validate_post" /\ ncalls' = ncalls + 1) =>
          (ret'.result = ret.result /\ ret'.arg = ret.arg)]_vars

C23_SecondCallOnGrownList ==
    /\ ret.op = "validate_post"
    /\ ncalls = 2
    /\ ret.old.json_metadata.kind = "dict"
    /\ "beneficiaries" \in ret.old.json_metadata.val.has
    /\ Len(ret.old.json_metadata.val.beneficiaries) = 2
    /\ Len(post.json_metadata.val.beneficiaries) = 3
    /\ Len(ret.arg) = 1
    /\ ret.arg[1].check = "Missing beneficiary"


\* C24: validate_post has no side effect on its input: after a call the post
\* (its metadata and the beneficiary list inside it included) equals what it
\* was before the call.
C24_InputUnchangedByCall == [][(pc = "direct") => (post' = post)]_vars


\* The scenario's post: the required app, developer and country, every
\* required tag, every required beneficiary pair, a body of 100 or more.
MeetsListedRequirements(p, req) ==
    LET m == p.json_metadata.val
    IN  /\ p.json_metadata.kind # "badstr"
        /\ Required(req.app) /\ Given(m, "app") = req.app
        /\ Required(req.developer) /\ Given(m, "developer") = req.developer
        /\ Required(req.country) /\ Given(m, "country") = req.country
        /\ "tags" \in m.has /\ Range(req.tags) \subseteq Range(m.tags)
        /\ Range(req.beneficiaries) \subseteq Range(MergedBeneficiaries(p, m))
        /\ p.body_len >= MinBodyLen

HasRequiredFields(p, req) ==
    \A i \in 1..Len(req.required_fields) :
        Required(Given(p.json_metadata.val, req.required_fields[i]))

\* The rejected post of the scenario: another app, developer and country than
\* required, a required tag missing, a short body.
AllWrong(p, req) ==
    LET m == p.json_metadata.val
    IN  /\ p.json_metadata.kind # "badstr"
        /\ Required(req.app) /\ Given(m, "app") # req.app
        /\ Required(req.developer) /\ Given(m, "developer") # req.developer
        /\ Required(req.country) /\ Given(m, "country") # req.country
        /\ ~(Range(req.tags) \subseteq (IF "tags" \in m.has THEN Range(m.tags) ELSE {}))
        /\ p.body_len < MinBodyLen

\* C25, as stated: a post with the required app, developer, country, tags and
\* beneficiary pair and a body of at least 100 characters validates with
\* valid = true and reasons = []; a post with wrong app, developer, tags and
\* country and a short body is rejected.
C25_ScenarioAccepted ==
    ret.op = "validate_post" =>
        /\ MeetsListedRequirements(ret.old, config.required_metadata)
             => (ret.result /\ ret.arg = <<>>)
        /\ AllWrong(ret.old, config.required_metadata) => ~ret.result

\* C25, amended: such a post validates with valid = true and reasons = [] when
\* every required field is present and truthy in its metadata as well; the
\* all-wrong post is rejected.
C25_ScenarioAcceptedWithFields ==
    ret.op = "validate_post" =>
        /\ (/\ MeetsListedRequirements(ret.old, config.required_metadata)
            /\ HasRequiredFields(ret.old, config.required_metadata))
             => (ret.result /\ ret.arg = <<>>)
        /\ AllWrong(ret.old, config.required_metadata) => ~ret.result

C25_AcceptedAtMinimumBody ==
    /\ ret.op = "validate_post"
    /\ config.required_metadata = RequiredMetadata
    /\ ret.old.json_metadata.val = GoodMetadata
    /\ ret.old.body_len = MinBodyLen
    /\ ret.old.beneficiaries = <<>>
    /\ ret.old.extensions = <<>>
    /\ ret.result
    /\ ret.arg = <<>>


\* Every requirement other than the beneficiaries is met.
MeetsAllButBeneficiaries(p, req) ==
    LET m == p.json_metadata.val
    IN  /\ p.json_metadata.kind # "badstr"
        /\ Required(req.app) => Given(m, "app") = req.app
        /\ Required(req.developer) => Given(m, "developer") = req.developer
        /\ Required(req.country) => Given(m, "country") = req.country
        /\ Range(req.tags) \subseteq (IF "tags" \in m.has THEN Range(m.tags) ELSE {})
        /\ HasRequiredFields(p, req)
        /\ p.body_len >= MinBodyLen

\* The required pairs without an exact match in any source, in requirement order.
Unmatched(p, req) ==
    LET Lacking(b) ==
            ~\E i \in 1..Len(MergedBeneficiaries(p, p.json_metadata.val)) :
                /\ MergedBeneficiaries(p, p.json_metadata.val)[i].account = b.account
                /\ MergedBeneficiaries(p, p.json_metadata.val)[i].weight = b.weight
    IN  SelectSeq(req.beneficiaries, Lacking)

\* C26: a post that meets every other requirement but has no beneficiary
\* entry equal to a required pair on both account and weight (none at all, or
\* the account at another weight) is rejected with exactly one reason, the one
\* naming that pair.
C26_OnlyTheMissingBeneficiary ==
    (/\ ret.op = "validate_post"
     /\ MeetsAllButBeneficiaries(ret.old, config.required_metadata)
     /\ Len(Unmatched(ret.old, config.required_metadata)) = 1) =>
        LET b == Unmatched(ret.old, config.required_metadata)[1]
        IN  /\ ~ret.result
            /\ ret.arg = <<Reason("Missing beneficiary", <<b.account, ToString(b.weight)>>)>>

C26_RightAccountWrongWeight ==
    /\ ret.op = "validate_post"
    /\ config.required_metadata = RequiredMetadata
    /\ MeetsAllButBeneficiaries(ret.old, RequiredMetadata)
    /\ "beneficiaries" \in ret.old.json_metadata.val.has
    /\ ret.old.json_metadata.val.beneficiaries = <<[account |-> "hiveecuador", weight |-> 500]>>
    /\ ret.old.beneficiaries = <<>>
    /\ ret.arg = <<Reason("Missing beneficiary", <<"hiveecuador", "8000">>)>>


ReadOps == {"is_post_processed", "get_daily_stats", "can_send_transfer_today"}

Tables == <<processed_posts, daily_stats, daily_transfers>>

\* C27: is_post_processed, get_daily_stats and can_send_transfer_today leave
\* the three tables unchanged; is_post_processed(a, p) is false on a fresh
\* store, true once record_processed_post(a, p, ...) has run, and changed by
\* nothing else, a record of another key included.
C27_ReadsArePureAndExact ==
    /\ [][(ret'.op \in ReadOps /\ ret' # ret) => UNCHANGED Tables]_vars
    /\ [](ncalls = 0 =>
            \A key \in Keys : ~is_post_processed(processed_posts, key[1], key[2]))
    /\ [](ret.op = "is_post_processed" =>
            ret.result = (\E r \in processed_posts :
                             r.author = ret.author /\ r.permlink = ret.permlink))
    /\ [][\A key \in Keys :
            is_post_processed(processed_posts', key[1], key[2])
                = \/ is_post_processed(processed_posts, key[1], key[2])
                  \/ /\ ret'.op = "record_processed_post"
                     /\ ncalls' = ncalls + 1
                     /\ <<ret'.author, ret'.permlink>> = key]_vars

C27_OtherKeyOfSameAuthorRecorded ==
    /\ ret.op = "is_post_processed"
    /\ ~ret.result
    /\ ret.author = "alice"
    /\ \E r \in processed_posts : r.author = "alice" /\ r.permlink # ret.permlink
    /\ DOMAIN daily_stats # {}


\* C28: a store failure met while a post is processed is confined to that
\* post: it is caught at the per-post boundary (process_post's handler, or
\* run()'s around it) and counted in today's errors, and no Processed-Post
\* Record is touched on the way.
C28_StoreFailureConfined ==
    [][(pc \in {"except", "inner_except"}) =>
         (/\ processed_posts' = processed_posts
          /\ pc' \in {pc, "inner_except", "loop"}
          /\ pc' = "loop" => Coalesce(daily_stats', Today(now), "errors") = ErrorsToday + 1)]_vars


\* C29: within one process_post run each of the three actions is attempted at
\* most once, in one pass with no step back and no outcome overwritten, and a
\* failed action puts false (comment, upvote) or 0 (transfer) in the record.
C29_EachActionOnceNoRetry ==
    /\ [][(pc = "comment") =>
            (pc' = "transfer" /\ run.r_comment = "none" /\ run'.r_comment # "none")]_vars
    /\ [][(pc = "transfer") =>
            (/\ pc' = "upvote"
             /\ run.r_transfer = "none" /\ run'.r_transfer # "none"
             /\ run'.r_comment = run.r_comment)]_vars
    /\ [][(pc = "upvote") =>
            (\/ pc' = "upvote" /\ run' = run
             \/ /\ pc' = "record"
                /\ run.r_upvote = "none" /\ run'.r_upvote # "none"
                /\ run'.r_comment = run.r_comment
                /\ run'.r_transfer = run.r_transfer)]_vars
    /\ [][(\E id \in PostIds : executor'[id] # executor[id]) =>
            (pc = "comment" /\ executor' = [executor EXCEPT ![post] = @ + 1])]_vars
    /\ [](pc = "stats" =>
            \A v \in RowsOfPost :
                /\ run.r_transfer = "fail" => v[1] = 0
                /\ run.r_upvote = "fail" => ~v[2]
                /\ run.r_comment = "fail" => ~v[3])

C29_OnlyTheCommentSucceeded ==
    /\ pc = "stats"
    /\ run.r_comment = "ok"
    /\ run.r_transfer = "fail"
    /\ run.r_upvote = "fail"
    /\ executor[post] = 1
    /\ RowsOfPost = {<<0, FALSE, TRUE>>}


PostsProcessedCounted(stats) ==
    [d \in 0..Today(MaxNow) |-> Coalesce(stats, d, "posts_processed")]

\* C30: a post is processed in one pass, Fetched -> Validated ->
\* ActionsAttempted -> Recorded -> CountersUpdated: validation takes the next
\* fetched post, the actions start only on a validated post, the record is
\* written only once all three actions have been attempted, and a
\* posts_processed counter is raised only after the record, which then exists.
C30_SinglePassOrder ==
    /\ [][(pc' = "validate" /\ pc # "validate") =>
            (pc = "loop" /\ posts # <<>> /\ post' = Head(posts))]_vars
    /\ [][(pc' = "comment" /\ pc # "comment") => (pc = "validate" /\ Valid(post))]_vars
    /\ [][(pc' = "record" /\ pc # "record") => (pc = "upvote" /\ AllAttempted')]_vars
    /\ [][(processed_posts' # processed_posts) =>
            (pc = "record" /\ AllAttempted /\ pc' = "stats" /\ Processed(post)')]_vars
    /\ [][(PostsProcessedCounted(daily_stats') # PostsProcessedCounted(daily_stats)) =>
            (pc = "stats" /\ Processed(post) /\ pc' = "loop")]_vars

C30_TwoPostsRecordedThenCounted ==
    /\ pc = "loop"
    /\ Cardinality(processed_posts) = 2
    /\ Coalesce(daily_stats, Today(now), "posts_processed") = 2
    /\ failures = 0


\* The balance lookup of this run failed: get_account_balance answered 0.
LookupFailed == run.balance_seen = 0

\* C31: when the balance lookup fails the balance is taken as 0, below the
\* positive minimum: the transfer is skipped (hbd_sent = 0 in the run and in
\* the record, no transfer counted for the day) while the comment has been
\* attempted, the upvote is attempted next, and the post is recorded.
C31_FailedLookupSkipsTransferOnly ==
    /\ [](LookupFailed =>
            /\ MinAccountBalance > 0
            /\ run.r_transfer = "fail"
            /\ run.hbd_sent = 0
            /\ run.r_comment # "none"
            /\ pc \in {"upvote", "record", "stats"}
            /\ pc = "stats" => (run.r_upvote # "none"
                                /\ RowsOfPost = {<<0, run.upvoted, run.commented>>}))
    /\ [][(LookupFailed /\ pc = "upvote" /\ pc' # pc) => pc' = "record"]_vars
    /\ [][(LookupFailed /\ pc = "stats" /\ pc' = "loop") =>
            (/\ Today(now) \in DOMAIN daily_transfers'
             /\ daily_transfers'[Today(now)].transfer_count
                    = TransferCount(daily_transfers, Today(now))
             /\ Coalesce(daily_stats', Today(now), "hbd_sent")
                    = Coalesce(daily_stats, Today(now), "hbd_sent"))]_vars

C31_RecordedWithoutTransfer ==
    /\ LookupFailed
    /\ pc = "stats"
    /\ config.max_daily_transfers = 1
    /\ run.count_seen = 0
    /\ RowsOfPost = {<<0, TRUE, TRUE>>}


\* A pair equal on account and weight, in each of the three places.
InMetadata(p, b) ==
    /\ "beneficiaries" \in p.json_metadata.val.has
    /\ \E i \in 1..Len(p.json_metadata.val.beneficiaries) :
         p.json_metadata.val.beneficiaries[i] = b

InDirectField(p, b) == \E i \in 1..Len(p.beneficiaries) : p.beneficiaries[i] = b

InTaggedExtension(p, b) ==
    \E i \in 1..Len(p.extensions) :
        /\ p.extensions[i].is_list /\ p.extensions[i].len >= 2 /\ p.extensions[i].tag = 0
        /\ p.extensions[i].has_beneficiaries
        /\ \E j \in 1..Len(p.extensions[i].beneficiaries) :
             p.extensions[i].beneficiaries[j] = b

ReportedMissing(reasons, b) ==
    \E i \in 1..Len(reasons) :
        reasons[i] = Reason("Missing beneficiary", <<b.account, ToString(b.weight)>>)

\* C32: a required beneficiary pair is satisfied exactly when a pair equal on
\* account and weight is in the metadata's beneficiaries, in the post's direct
\* beneficiaries field or in an extension entry [0, {beneficiaries: [...]}];
\* one source is enough and a pair met in several sources changes nothing.
C32_AnyOneSourceSatisfies ==
    (ret.op = "validate_post" /\ ret.old.json_metadata.kind # "badstr") =>
        \A i \in 1..Len(config.required_metadata.beneficiaries) :
            LET b == config.required_metadata.beneficiaries[i]
            IN  ~ReportedMissing(ret.arg, b)
                    <=> \/ InMetadata(ret.old, b)
                        \/ InDirectField(ret.old, b)
                        \/ InTaggedExtension(ret.old, b)

C32_OneInDirectOneInExtension ==
    /\ ret.op = "validate_post"
    /\ ret.old.json_metadata.kind = "dict"
    /\ config.required_metadata.beneficiaries = <<Ben1, Ben2>>
    /\ ~InMetadata(ret.old, Ben1) /\ InDirectField(ret.old, Ben1)
    /\ ~InMetadata(ret.old, Ben2) /\ InTaggedExtension(ret.old, Ben2)
    /\ ~ReportedMissing(ret.arg, Ben1)
    /\ ~ReportedMissing(ret.arg, Ben2)


EmptyRequirements(req) ==
    /\ ~Required(req.app) /\ ~Required(req.developer) /\ ~Required(req.country)
    /\ req.tags = <<>> /\ req.beneficiaries = <<>> /\ req.required_fields = <<>>

BodyReasonLast(reasons) ==
    /\ reasons # <<>>
    /\ reasons[Len(reasons)].check = "Post body too short for introduction"
    /\ \A i \in 1..Len(reasons) - 1 :
         reasons[i].check # "Post body too short for introduction"

C34_AggregateMatchesTransferTable ==
    /\ DOMAIN daily_stats = DOMAIN daily_transfers
    /\ \A d \in DOMAIN daily_stats : daily_stats[d].hbd_sent = daily_transfers[d].total_amount

C34_TwoAmountsOnOneDate ==
    /\ ret.op = "update_daily_stats"
    /\ \E d \in DOMAIN daily_stats :
         /\ daily_stats[d].hbd_sent = 2 * MaxDelta
         /\ daily_transfers[d].total_amount = 2 * MaxDelta
         /\ daily_transfers[d].transfer_count = 2


ErrorsOnlyCall ==
    /\ ret'.op = "update_daily_stats"
    /\ ret'.arg = <<0, 0, 0, 1>>
    /\ ncalls' = ncalls + 1

OtherDatesKept(tbl, after, date) ==
    /\ DOMAIN after \ {date} = DOMAIN tbl \ {date}
    /\ \A d \in DOMAIN tbl \ {date} : after[d] = tbl[d]

\* C36: update_daily_stats(errors=1) raises today's errors counter by exactly
\* 1 and leaves today's posts_processed, hbd_sent, upvotes_given,
\* transfer_count and total_amount values, the rows of every other date and
\* all Processed-Post Records as they were.
C36_ErrorsOnlyUpdateFrame ==
    [][ErrorsOnlyCall =>
         (/\ Coalesce(daily_stats', Today(now), "errors")
                = Coalesce(daily_stats, Today(now), "errors") + 1
          /\ \A column \in {"posts_processed", "hbd_sent", "upvotes_given"} :
               Coalesce(daily_stats', Today(now), column)
                   = Coalesce(daily_stats, Today(now), column)
          /\ \A column \in {"transfer_count", "total_amount"} :
               Coalesce(daily_transfers', Today(now), column)
                   = Coalesce(daily_transfers, Today(now), column)
          /\ OtherDatesKept(daily_stats, daily_stats', Today(now))
          /\ OtherDatesKept(daily_transfers, daily_transfers', Today(now))
          /\ processed_posts' = processed_posts
          /\ seq_id' = seq_id)]_vars

C36_ErrorCountedOnASecondDate ==
    /\ ret.op = "update_daily_stats"
    /\ ret.arg = <<0, 0, 0, 1>>
    /\ ret.date = 1
    /\ StatsValues(daily_stats, 1) = <<0, 0, 0, 1>>
    /\ 0 \in DOMAIN daily_stats
    /\ daily_stats[0].posts_processed = 1
    /\ daily_transfers[0].transfer_count = 1


\* C37: when building the candidate list raises on a feed entry,
\* monitor_community delivers no post for that cycle, the entries before the
\* bad one included, and its handler raises today's errors counter by 1 (the
\* handler's own store write failing is another failure, C13).
C37_BadEntryDropsTheCycle ==
    /\ [](pc = "monitor_except" => posts = <<>>)
    /\ [][(pc = "poll" /\ pc' = "monitor_except") => UNCHANGED <<store, posts, executor>>]_vars
    /\ [][(pc = "monitor_except" /\ pc' # "run_except") =>
            (/\ pc' = "loop"
             /\ posts' = <<>>
             /\ Coalesce(daily_stats', Today(now), "errors") = ErrorsToday + 1
             /\ processed_posts' = processed_posts
             /\ executor' = executor)]_vars

C37_RaisedWithFreshPostsInFeed ==
    /\ pc = "monitor_except"
    /\ posts = <<>>
    /\ processed_posts # {}
    /\ \E id \in PostIds : ~Processed(id) /\ Valid(id) /\ Age(id) <= DayTicks


\* C38: with no exception raised, a post that monitor_community delivered and
\* that passes validation has its Processed-Post Record by the end of the same
\* poll cycle: it is eventually recorded, it leaves the delivered list only
\* into process_post, it leaves process_post only recorded, and the loop
\* sleeps only when the delivered list is exhausted.
C38_DeliveredPostRecordedInCycle ==
    /\ \A id \in PostIds : (id \in Range(posts) /\ Valid(id)) ~> Processed(id)
    /\ [][\A id \in PostIds :
            (id \in Range(posts) /\ id \notin Range(posts')) => post' = id]_vars
    /\ [][\A id \in PostIds :
            (post = id /\ Valid(id) /\ post' # id) => Processed(id)']_vars
    /\ [][(pc' = "poll" /\ pc # "poll") => (posts = <<>> /\ post = "none")]_vars

C38_BothRecordedInTheFirstCycle ==
    /\ pc = "loop"
    /\ posts = <<>>
    /\ now = 0
    /\ \A id \in PostIds : Valid(id) => Processed(id)
    /\ \E id \in PostIds : Valid(id)


\* C39: the cap is per calendar date: can_send_transfer_today compares the cap
\* with the count of the date of the call alone, so with no row for that date
\* it answers true for a cap above 0 and false for cap 0 whatever earlier
\* dates hold, and update_daily_stats counts a transfer under the date current
\* when it runs, leaving the other dates' counts alone.
C39_CapIsPerDate ==
    /\ [](ret.op = "can_send_transfer_today" =>
            /\ ret.result = (TransferCount(daily_transfers, ret.date) < ret.cap)
            /\ ret.date \notin DOMAIN daily_transfers => (ret.result <=> ret.cap > 0))
    /\ [][(ret'.op = "update_daily_stats" /\ ncalls' = ncalls + 1) =>
            (/\ TransferCount(daily_transfers', Today(now))
                  = TransferCount(daily_transfers, Today(now))
                      + (IF ret'.arg[2] > 0 THEN 1 ELSE 0)
             /\ \A d \in DOMAIN daily_transfers \ {Today(now)} :
                  daily_transfers'[d] = daily_transfers[d])]_vars

C39_NewDateAfterAFullDay ==
    /\ ret.op = "can_send_transfer_today"
    /\ ret.date = 1
    /\ ret.cap = 1
    /\ ret.result
    /\ 1 \notin DOMAIN daily_transfers
    /\ 0 \in DOMAIN daily_transfers
    /\ daily_transfers[0].transfer_count >= 1

====
